---------------------------- MODULE Spec2Model ----------------------------
(***************************************************************************)
(* Model of src/src/index.ts: a Bun WebSocket chat server with rooms.      *)
(*                                                                         *)
(* JavaScript runs every hook (fetch, open, message, close) to completion  *)
(* on one thread, so each hook invocation is one atomic action.            *)
(*                                                                         *)
(* Text is a sequence of strings.  Text that comes from a client (the      *)
(* inbound frame, hence commands, room names and message bodies) is a      *)
(* sequence of one-character strings, so that startsWith, slice, split,    *)
(* join and toLowerCase are computed character by character.  The literal  *)
(* parts of the template strings of the source, and usernames (which the   *)
(* code never parses), are kept as one string each.                        *)
(***************************************************************************)
EXTENDS Integers, Sequences, FiniteSets, TLC

VARIABLES
    status,     \* per connection: "none", "upgraded", "open" or "closed"
    data,       \* per connection: ws.data, [username, rooms]
    subs,       \* the broadcaster's table: set of <<connection, topic>>
    last,       \* the hook invocation that produced this state
    out,        \* what that invocation sent: sequence of send/publish events,
                \* each with the set rcpt of connections it is delivered to
    response,   \* what fetch returned (NoResponse for undefined / other hooks)
    closes,     \* per connection: how many times its close hook has run
    pc          \* per connection: the statement its running hook is at
                \* (used when hooks are followed statement by statement)

vars == <<status, data, subs, last, out, response, closes, pc>>

-----------------------------------------------------------------------------
(* Bounds *)

NumConns == 2

Conns == 1..NumConns

\* Room names the clients use as arguments.
RoomNames == {<<"a">>, <<"b">>}

\* The username query parameter of an upgrade request; Null is "absent".
Null == "null"

UsernameParams == {Null, "", "alice"}

\* The username parameter request number c may carry: the first request
\* varies it, the later ones carry none.
ParamsOf(c) == IF c = 1 THEN UsernameParams ELSE {Null}

Paths == {"/chat", "/"}

\* The kinds of HTTP request: one without a WebSocket handshake, a
\* well-formed handshake, and a handshake the transport rejects.
Requests == {"plain", "upgrade", "badupgrade"}

-----------------------------------------------------------------------------
(* Characters and words of the inbound frames *)

SLASH == <<"/">>

SP == <<" ">>

TAB == <<"\t">>

NL == <<"\n">>

wJoin == <<"j", "o", "i", "n">>

wJoinUpper == <<"J", "O", "I", "N">>

wLeave == <<"l", "e", "a", "v", "e">>

wRoom == <<"r", "o", "o", "m">>

wRooms == <<"r", "o", "o", "m", "s">>

wMyrooms == <<"m", "y", "r", "o", "o", "m", "s">>

wFoo == <<"f", "o", "o">>

wHi == <<"h", "i">>

wX == <<"x">>

wY == <<"y">>

\* The inbound text frames the clients send.
Messages ==
    {SLASH \o wJoin \o SP \o r : r \in RoomNames}
    \cup {SLASH \o wLeave \o SP \o r : r \in RoomNames}
    \cup {SLASH \o wRoom \o SP \o r \o SP \o wX : r \in RoomNames}
    \cup { SLASH \o wRoom \o SP \o <<"a">> \o SP \o wX \o SP \o wY,
           SLASH \o wRoom \o SP \o <<"a">> \o SP \o SP \o wX,
           SLASH \o wRoom \o SP \o <<"a">> \o SP,
           SLASH \o wRoom \o SP \o <<"a">>,
           SLASH \o wRoom,
           SLASH \o wRooms,
           SLASH \o wMyrooms,
           SLASH \o wJoin,
           SLASH \o wJoin \o SP,
           SLASH \o wJoinUpper \o SP \o <<"b">>,
           SLASH \o wJoin \o SP \o SP \o <<"a">>,
           SLASH \o wJoin \o TAB \o <<"a">>,
           SLASH \o wLeave,
           SLASH \o wFoo,
           SLASH,
           SP \o SLASH \o wJoin \o SP \o <<"a">>,
           wHi,
           <<>> }

-----------------------------------------------------------------------------
(* String functions of JavaScript, on sequences of characters *)

\* Mutant: the frame is trimmed before the test (trimStart().startsWith).
StartsWithSlash_Trimmed(s) ==
    \/ Len(s) > 0 /\ s[1] = "/"
    \/ Len(s) > 1 /\ s[1] = " " /\ s[2] = "/"

\* String.prototype.startsWith('/')
StartsWithSlash(s) == Len(s) > 0 /\ s[1] = "/"

\* String.prototype.slice(1)
Slice1(s) == IF s = <<>> THEN <<>> ELSE Tail(s)

\* Index of the first ' ' in s, 0 when there is none.
RECURSIVE IndexOfSpace(_, _)
IndexOfSpace(s, i) ==
    IF i > Len(s) THEN 0
    ELSE IF s[i] = " " THEN i
    ELSE IndexOfSpace(s, i + 1)

\* String.prototype.split(' '): cuts at every single space, keeping the
\* empty pieces; the empty string gives one empty piece.
RECURSIVE Split(_)
Split(s) ==
    LET i == IndexOfSpace(s, 1) IN
    IF i = 0 THEN <<s>>
    ELSE <<SubSeq(s, 1, i - 1)>> \o Split(SubSeq(s, i + 1, Len(s)))

\* Array.prototype.join(sep)
RECURSIVE Join(_, _)
Join(parts, sep) ==
    IF parts = <<>> THEN <<>>
    ELSE IF Len(parts) = 1 THEN parts[1]
    ELSE parts[1] \o sep \o Join(Tail(parts), sep)

\* String.prototype.toLowerCase, on the letters the frames use.
LowerChar(ch) ==
    CASE ch = "J" -> "j"
      [] ch = "O" -> "o"
      [] ch = "I" -> "i"
      [] ch = "N" -> "n"
      [] OTHER -> ch

ToLowerCase(s) == [i \in 1..Len(s) |-> LowerChar(s[i])]

\* Array.prototype.slice(1)
ArgsSlice1(args) == IF args = <<>> THEN <<>> ELSE Tail(args)

\* Mutant: only undefined counts as a missing argument (args[0] ===
\* undefined), the empty string does not.
NoArg0_UndefinedOnly(args) == Len(args) = 0

\* !args[0]: args[0] is undefined or the empty string.
NoArg0(args) == Len(args) = 0 \/ args[1] = <<>>


-----------------------------------------------------------------------------
(* Set<string> of JavaScript: a set that iterates in insertion order *)

SetHas(s, x) == \E i \in 1..Len(s) : s[i] = x

\* Mutant: an array push instead of Set.add.
SetAdd_Push(s, x) == Append(s, x)

SetAdd(s, x) == IF SetHas(s, x) THEN s ELSE Append(s, x)

SetDelete(s, x) == SelectSeq(s, LAMBDA y : y # x)

-----------------------------------------------------------------------------
(* The transport: ws.send, ws.subscribe, ws.unsubscribe, server.publish *)

NoTopic == <<>>

NoResponse == [status |-> 0, body |-> ""]

\* The connections subscribed to topic r in table sb.
Subscribers(sb, r) == {c \in Conns : <<c, r>> \in sb}

\* ws.send(t) on connection c
Send(c, t) ==
    [kind |-> "send", topic |-> NoTopic, text |-> t, rcpt |-> {c}]

\* server.publish(r, t) with the table sb: every subscriber of r is a
\* recipient, the connection whose hook is running included.
Publish(sb, r, t) ==
    [kind |-> "publish", topic |-> r, text |-> t, rcpt |-> Subscribers(sb, r)]

\* ws.subscribe(r) on connection c
Subscribe(sb, c, r) == sb \cup {<<c, r>>}

\* Mutant: the topic is removed for every connection (the room is torn
\* down when one member goes).
Unsubscribe_Everyone(sb, c, r) == {p \in sb : p[2] # r}

\* ws.unsubscribe(r) on connection c
Unsubscribe(sb, c, r) == sb \ {<<c, r>>}

-----------------------------------------------------------------------------
(* State *)

NoData == [username |-> "", rooms |-> <<>>]

\* No hook of the connection is running.
Idle == [at |-> "idle", room |-> <<>>, rest |-> <<>>]

Init ==
    /\ status = [c \in Conns |-> "none"]
    /\ data = [c \in Conns |-> NoData]
    /\ subs = {}
    /\ last = [hook |-> "init", conn |-> 0, msg |-> <<>>]
    /\ out = <<>>
    /\ response = NoResponse
    /\ closes = [c \in Conns |-> 0]
    /\ pc = [c \in Conns |-> Idle]

\* getUsernameFromReq: url.searchParams.get('username') || 'Anonymous'
GetUsernameFromReq(param) ==
    IF param = Null \/ param = "" THEN "Anonymous" ELSE param

\* A hook that only replies to its own connection.
Reply(c, t) ==
    /\ out' = <<Send(c, t)>>
    /\ UNCHANGED <<data, subs>>

\* Mutant: joinRoom publishes the announcement before it subscribes.
JoinRoom_PublishFirst(c, roomName) ==
    /\ subs' = Subscribe(subs, c, roomName)
    /\ data' = [data EXCEPT ![c].rooms = SetAdd(@, roomName)]
    /\ out' = << Send(c, <<"You have joined room: ">> \o roomName),
                 Publish(subs, roomName,
                         <<data[c].username, " has joined the room">>) >>

\* Mutant: joinRoom without the rooms.add call.
JoinRoom_NoAdd(c, roomName) ==
    /\ subs' = Subscribe(subs, c, roomName)
    /\ data' = data
    /\ out' = << Send(c, <<"You have joined room: ">> \o roomName),
                 Publish(subs', roomName,
                         <<data[c].username, " has joined the room">>) >>

JoinRoom(c, roomName) ==
    /\ subs' = Subscribe(subs, c, roomName)
    /\ data' = [data EXCEPT ![c].rooms = SetAdd(@, roomName)]
    /\ out' = << Send(c, <<"You have joined room: ">> \o roomName),
                 Publish(subs', roomName,
                         <<data[c].username, " has joined the room">>) >>

\* Mutant: leaveRoom publishes the announcement before it unsubscribes.
LeaveRoom_PublishFirst(c, roomName) ==
    IF ~SetHas(data[c].rooms, roomName)
    THEN Reply(c, <<"You are not in room ">> \o roomName)
    ELSE /\ subs' = Unsubscribe(subs, c, roomName)
         /\ data' = [data EXCEPT ![c].rooms = SetDelete(@, roomName)]
         /\ out' = << Send(c, <<"You have left room: ">> \o roomName),
                      Publish(subs, roomName,
                              <<data[c].username, " has left the room">>) >>

\* Mutant: leaveRoom without the ws.unsubscribe call.
LeaveRoom_KeepSub(c, roomName) ==
    IF ~SetHas(data[c].rooms, roomName)
    THEN Reply(c, <<"You are not in room ">> \o roomName)
    ELSE /\ subs' = subs
         /\ data' = [data EXCEPT ![c].rooms = SetDelete(@, roomName)]
         /\ out' = << Send(c, <<"You have left room: ">> \o roomName),
                      Publish(subs', roomName,
                              <<data[c].username, " has left the room">>) >>

\* Mutant: leaveRoom without the membership guard.
LeaveRoom_NoGuard(c, roomName) ==
    /\ subs' = Unsubscribe(subs, c, roomName)
    /\ data' = [data EXCEPT ![c].rooms = SetDelete(@, roomName)]
    /\ out' = << Send(c, <<"You have left room: ">> \o roomName),
                 Publish(subs', roomName,
                         <<data[c].username, " has left the room">>) >>

LeaveRoom(c, roomName) ==
    IF ~SetHas(data[c].rooms, roomName)
    THEN Reply(c, <<"You are not in room ">> \o roomName)
    ELSE /\ subs' = Unsubscribe(subs, c, roomName)
         /\ data' = [data EXCEPT ![c].rooms = SetDelete(@, roomName)]
         /\ out' = << Send(c, <<"You have left room: ">> \o roomName),
                      Publish(subs', roomName,
                              <<data[c].username, " has left the room">>) >>

\* Mutant: the room message is published with ws.publish, which leaves out
\* the sender.
RoomMessage_SkipSender(c, roomName, roomMessage) ==
    IF ~SetHas(data[c].rooms, roomName)
    THEN Reply(c, <<"You are not in room ">> \o roomName
                  \o <<". Join it first with /join ">> \o roomName)
    ELSE /\ out' = << Publish(Unsubscribe(subs, c, roomName), roomName,
                              <<"[">> \o roomName
                              \o <<"] ", data[c].username, ": ">>
                              \o roomMessage) >>
         /\ UNCHANGED <<data, subs>>

\* Mutant: the room message is published without the membership guard.
RoomMessage_NoGuard(c, roomName, roomMessage) ==
    /\ out' = << Publish(subs, roomName,
                         <<"[">> \o roomName
                         \o <<"] ", data[c].username, ": ">>
                         \o roomMessage) >>
    /\ UNCHANGED <<data, subs>>

\* case 'room' of the message hook, after the arguments were validated
RoomMessage(c, roomName, roomMessage) ==
    IF ~SetHas(data[c].rooms, roomName)
    THEN Reply(c, <<"You are not in room ">> \o roomName
                  \o <<". Join it first with /join ">> \o roomName)
    ELSE /\ out' = << Publish(subs, roomName,
                              <<"[">> \o roomName
                              \o <<"] ", data[c].username, ": ">>
                              \o roomMessage) >>
         /\ UNCHANGED <<data, subs>>

\* Mutant: the rooms are kept in a list that a repeated join appended to,
\* so every room is listed twice.
MyRooms_Twice(c) ==
    IF Len(data[c].rooms) = 0
    THEN Reply(c, <<"You have not joined any rooms. Join one with /join [room]">>)
    ELSE Reply(c, <<"Your rooms:\n">> \o Join(data[c].rooms \o data[c].rooms, NL))

\* case 'myrooms' of the message hook
MyRooms(c) ==
    IF Len(data[c].rooms) = 0
    THEN Reply(c, <<"You have not joined any rooms. Join one with /join [room]">>)
    ELSE Reply(c, <<"Your rooms:\n">> \o Join(data[c].rooms, NL))

\* The command switch of the message hook.
Command(c, command, args) ==
    LET name == ToLowerCase(command) IN
    CASE name = wJoin ->
            IF NoArg0(args)
            THEN Reply(c, <<"Please specify a room name: /join [room]">>)
            ELSE JoinRoom(c, args[1])
      [] name = wLeave ->
            IF NoArg0(args)
            THEN Reply(c, <<"Please specify a room name: /leave [room]">>)
            ELSE LeaveRoom(c, args[1])
      [] name = wRoom ->
            LET roomMessage == Join(ArgsSlice1(args), SP) IN
            IF NoArg0(args) \/ roomMessage = <<>>
            THEN Reply(c, <<"Please specify a room name and message: /room [room] [message]">>)
            ELSE RoomMessage(c, args[1], roomMessage)
      [] name = wRooms ->
            Reply(c, <<"To join a room, use: /join [room]">>)
      [] name = wMyrooms ->
            MyRooms(c)
      [] OTHER ->
            Reply(c, <<"Unknown command: ">> \o command
                     \o <<". Available commands: /join, /leave, /room, /rooms, /myrooms">>)

-----------------------------------------------------------------------------
(* Hooks *)

\* server.upgrade(req, ...): succeeds on a well-formed handshake only.
ServerUpgrade(kind) == kind = "upgrade"

\* Mutant: fetch without the test of url.pathname; every request is handed
\* to server.upgrade.
Fetch_NoPathCheck(c, path, param, kind) ==
    /\ status[c] = "none"
    /\ last' = [hook |-> "fetch", conn |-> c, msg |-> <<path, kind>>]
    /\ out' = <<>>
    /\ UNCHANGED <<subs, closes, pc>>
    /\ IF ServerUpgrade(kind)
       THEN /\ status' = [status EXCEPT ![c] = "upgraded"]
            /\ data' = [data EXCEPT ![c] =
                          [username |-> GetUsernameFromReq(param),
                           rooms |-> <<>>]]
            /\ response' = NoResponse
       ELSE /\ response' = [status |-> 400, body |-> "WebSocket upgrade error"]
            /\ UNCHANGED <<status, data>>

\* fetch: request number c of the transport, of kind `kind`, for `path`
\* with the username query parameter `param`.
Fetch(c, path, param, kind) ==
    /\ status[c] = "none"
    /\ last' = [hook |-> "fetch", conn |-> c, msg |-> <<path, kind>>]
    /\ out' = <<>>
    /\ UNCHANGED <<subs, closes, pc>>
    /\ IF path = "/chat"
       THEN IF ServerUpgrade(kind)
            THEN /\ status' = [status EXCEPT ![c] = "upgraded"]
                 /\ data' = [data EXCEPT ![c] =
                               [username |-> GetUsernameFromReq(param),
                                rooms |-> <<>>]]
                 /\ response' = NoResponse
            ELSE /\ response' = [status |-> 400, body |-> "WebSocket upgrade error"]
                 /\ UNCHANGED <<status, data>>
       ELSE /\ response' = [status |-> 200, body |-> "Simple WebSocket Server"]
            /\ UNCHANGED <<status, data>>

HelpText ==
    "Available commands:\n- /join [room] - Join a room\n- /leave [room] - Leave a room\n- /room [room] [message] - Send a message to a room\n- /rooms - List all available rooms\n- /myrooms - List rooms you've joined\n- Any other message will be echoed back to you"

\* websocket.open
Open(c) ==
    /\ status[c] = "upgraded"
    /\ status' = [status EXCEPT ![c] = "open"]
    /\ last' = [hook |-> "open", conn |-> c, msg |-> <<>>]
    /\ out' = << Send(c, <<"Welcome, ", data[c].username, "!">>),
                 Send(c, <<HelpText>>) >>
    /\ response' = NoResponse
    /\ UNCHANGED <<data, subs, closes, pc>>

\* websocket.message
Message(c, m) ==
    /\ status[c] = "open"
    /\ last' = [hook |-> "message", conn |-> c, msg |-> m]
    /\ response' = NoResponse
    /\ UNCHANGED <<status, closes, pc>>
    /\ IF StartsWithSlash(m)
       THEN LET parts == Split(Slice1(m)) IN Command(c, Head(parts), Tail(parts))
       ELSE Reply(c, <<data[c].username, ": ">> \o m)

\* Mutant: the loop unsubscribes before it publishes.
RECURSIVE CloseLoop_UnsubscribeFirst(_, _, _, _)
CloseLoop_UnsubscribeFirst(c, rs, sb, o) ==
    IF rs = <<>> THEN [subs |-> sb, out |-> o]
    ELSE CloseLoop_UnsubscribeFirst(c, Tail(rs), Unsubscribe(sb, c, Head(rs)),
                   Append(o, Publish(Unsubscribe(sb, c, Head(rs)), Head(rs),
                          <<data[c].username, " has left the room (disconnected)">>)))

\* The for-of loop of websocket.close over the rooms rs still to visit:
\* publish the announcement, then unsubscribe.
RECURSIVE CloseLoop(_, _, _, _)
CloseLoop(c, rs, sb, o) ==
    IF rs = <<>> THEN [subs |-> sb, out |-> o]
    ELSE CloseLoop(c, Tail(rs), Unsubscribe(sb, c, Head(rs)),
                   Append(o, Publish(sb, Head(rs),
                          <<data[c].username, " has left the room (disconnected)">>)))

\* Mutant: the rooms set is cleared before the loop instead of after it.
Close_ClearFirst(c, dropped) ==
    /\ status[c] = "open"
    /\ status' = [status EXCEPT ![c] = "closed"]
    /\ last' = [hook |-> "close", conn |-> c,
                msg |-> IF dropped THEN <<"dropped">> ELSE <<"kept">>]
    /\ response' = NoResponse
    /\ closes' = [closes EXCEPT ![c] = @ + 1]
    /\ UNCHANGED pc
    /\ LET sb0 == IF dropped THEN {p \in subs : p[1] # c} ELSE subs
           r == CloseLoop(c, <<>>, sb0, <<>>)
       IN /\ subs' = r.subs
          /\ out' = r.out
          /\ data' = [data EXCEPT ![c].rooms = <<>>]

\* Mutant: the loop stops after the first room (a return in its body).
Close_FirstRoomOnly(c, dropped) ==
    /\ status[c] = "open"
    /\ status' = [status EXCEPT ![c] = "closed"]
    /\ last' = [hook |-> "close", conn |-> c,
                msg |-> IF dropped THEN <<"dropped">> ELSE <<"kept">>]
    /\ response' = NoResponse
    /\ closes' = [closes EXCEPT ![c] = @ + 1]
    /\ UNCHANGED pc
    /\ LET sb0 == IF dropped THEN {p \in subs : p[1] # c} ELSE subs
           r == CloseLoop(c, IF data[c].rooms = <<>> THEN <<>>
                             ELSE <<Head(data[c].rooms)>>, sb0, <<>>)
       IN /\ subs' = r.subs
          /\ out' = r.out
          /\ data' = [data EXCEPT ![c].rooms = <<>>]

\* websocket.close.  The source does not say whether the transport has
\* already dropped the closing socket's subscriptions when it calls the
\* hook; `dropped` covers both, and last.msg records which it was.
Close(c, dropped) ==
    /\ status[c] = "open"
    /\ status' = [status EXCEPT ![c] = "closed"]
    /\ last' = [hook |-> "close", conn |-> c,
                msg |-> IF dropped THEN <<"dropped">> ELSE <<"kept">>]
    /\ response' = NoResponse
    /\ closes' = [closes EXCEPT ![c] = @ + 1]
    /\ UNCHANGED pc
    /\ LET sb0 == IF dropped THEN {p \in subs : p[1] # c} ELSE subs
           r == CloseLoop(c, data[c].rooms, sb0, <<>>)
       IN /\ subs' = r.subs
          /\ out' = r.out
          /\ data' = [data EXCEPT ![c].rooms = <<>>]

Next ==
    \/ \E c \in Conns, path \in Paths, kind \in Requests :
          \E param \in ParamsOf(c) : Fetch(c, path, param, kind)
    \/ \E c \in Conns : Open(c)
    \/ \E c \in Conns, m \in Messages : Message(c, m)
    \/ \E c \in Conns, dropped \in BOOLEAN : Close(c, dropped)

Spec == Init /\ [][Next]_vars

-----------------------------------------------------------------------------
(* The hooks, statement by statement.                                      *)
(*                                                                         *)
(* joinRoom, leaveRoom and websocket.close are followed one statement at   *)
(* a time; pc[c] is the statement connection c's hook is about to run.     *)
(* The hooks are synchronous functions without await, so the event loop    *)
(* calls a hook only when no other hook is running (CanRun).               *)

\* The frames followed statement by statement.
StepFrames ==
    {SLASH \o wJoin \o SP \o r : r \in RoomNames}
    \cup {SLASH \o wLeave \o SP \o r : r \in RoomNames}
    \cup {SLASH \o wRoom \o SP \o r \o SP \o wX : r \in RoomNames}

At(label, r, rest) == [at |-> label, room |-> r, rest |-> rest]

\* Mutant: the hooks are async functions that await between their
\* statements, so hooks of different connections interleave.
CanRun_Async(c) == TRUE

\* Connection c's flow may take a step: no hook of another connection has
\* begun and not yet returned.
CanRun(c) == \A d \in Conns \ {c} : pc[d] = Idle

\* What a statement of the hook of c records as the current invocation.
StepLast(c, hook) == [hook |-> hook, conn |-> c, msg |-> <<pc[c].at>>]

\* fetch and websocket.open have no statement on rooms or subscriptions.
SFetch(c, path, param, kind) == CanRun(c) /\ Fetch(c, path, param, kind)

SOpen(c) == CanRun(c) /\ Open(c)

\* websocket.message up to the call of joinRoom or leaveRoom; the other
\* branches run to their return.
SMessage(c, m) ==
    /\ CanRun(c) /\ pc[c] = Idle
    /\ status[c] = "open"
    /\ last' = [hook |-> "message", conn |-> c, msg |-> m]
    /\ response' = NoResponse
    /\ UNCHANGED <<status, closes>>
    /\ LET parts == Split(Slice1(m))
           name == ToLowerCase(Head(parts))
           args == Tail(parts)
       IN IF StartsWithSlash(m) /\ name = wJoin /\ ~NoArg0(args)
          THEN /\ pc' = [pc EXCEPT ![c] = At("joinRoom:26", args[1], <<>>)]
               /\ out' = <<>>
               /\ UNCHANGED <<data, subs>>
          ELSE IF StartsWithSlash(m) /\ name = wLeave /\ ~NoArg0(args)
          THEN /\ pc' = [pc EXCEPT ![c] = At("leaveRoom:45", args[1], <<>>)]
               /\ out' = <<>>
               /\ UNCHANGED <<data, subs>>
          ELSE /\ UNCHANGED pc
               /\ IF StartsWithSlash(m)
                  THEN Command(c, Head(parts), args)
                  ELSE Reply(c, <<data[c].username, ": ">> \o m)

\* joinRoom line 26: ws.subscribe(roomName)
SJoinSubscribe(c) ==
    /\ CanRun(c) /\ pc[c].at = "joinRoom:26"
    /\ subs' = Subscribe(subs, c, pc[c].room)
    /\ pc' = [pc EXCEPT ![c].at = "joinRoom:29"]
    /\ last' = StepLast(c, "message")
    /\ UNCHANGED <<status, data, out, response, closes>>

\* joinRoom line 29: ws.data.rooms.add(roomName)
SJoinAdd(c) ==
    /\ CanRun(c) /\ pc[c].at = "joinRoom:29"
    /\ data' = [data EXCEPT ![c].rooms = SetAdd(@, pc[c].room)]
    /\ pc' = [pc EXCEPT ![c].at = "joinRoom:34"]
    /\ last' = StepLast(c, "message")
    /\ UNCHANGED <<status, subs, out, response, closes>>

\* joinRoom line 34: ws.send
SJoinSend(c) ==
    /\ CanRun(c) /\ pc[c].at = "joinRoom:34"
    /\ out' = Append(out, Send(c, <<"You have joined room: ">> \o pc[c].room))
    /\ pc' = [pc EXCEPT ![c].at = "joinRoom:37"]
    /\ last' = StepLast(c, "message")
    /\ UNCHANGED <<status, data, subs, response, closes>>

\* joinRoom line 37: server.publish, and return
SJoinPublish(c) ==
    /\ CanRun(c) /\ pc[c].at = "joinRoom:37"
    /\ out' = Append(out, Publish(subs, pc[c].room,
                                  <<data[c].username, " has joined the room">>))
    /\ pc' = [pc EXCEPT ![c] = Idle]
    /\ last' = StepLast(c, "message")
    /\ UNCHANGED <<status, data, subs, response, closes>>

\* leaveRoom lines 45-48: the membership guard
SLeaveGuard(c) ==
    /\ CanRun(c) /\ pc[c].at = "leaveRoom:45"
    /\ last' = StepLast(c, "message")
    /\ UNCHANGED <<status, data, subs, response, closes>>
    /\ IF ~SetHas(data[c].rooms, pc[c].room)
       THEN /\ out' = Append(out, Send(c, <<"You are not in room ">> \o pc[c].room))
            /\ pc' = [pc EXCEPT ![c] = Idle]
       ELSE /\ out' = out
            /\ pc' = [pc EXCEPT ![c].at = "leaveRoom:51"]

\* leaveRoom line 51: ws.unsubscribe(roomName)
SLeaveUnsubscribe(c) ==
    /\ CanRun(c) /\ pc[c].at = "leaveRoom:51"
    /\ subs' = Unsubscribe(subs, c, pc[c].room)
    /\ pc' = [pc EXCEPT ![c].at = "leaveRoom:54"]
    /\ last' = StepLast(c, "message")
    /\ UNCHANGED <<status, data, out, response, closes>>

\* leaveRoom line 54: ws.data.rooms.delete(roomName)
SLeaveDelete(c) ==
    /\ CanRun(c) /\ pc[c].at = "leaveRoom:54"
    /\ data' = [data EXCEPT ![c].rooms = SetDelete(@, pc[c].room)]
    /\ pc' = [pc EXCEPT ![c].at = "leaveRoom:59"]
    /\ last' = StepLast(c, "message")
    /\ UNCHANGED <<status, subs, out, response, closes>>

\* leaveRoom line 59: ws.send
SLeaveSend(c) ==
    /\ CanRun(c) /\ pc[c].at = "leaveRoom:59"
    /\ out' = Append(out, Send(c, <<"You have left room: ">> \o pc[c].room))
    /\ pc' = [pc EXCEPT ![c].at = "leaveRoom:62"]
    /\ last' = StepLast(c, "message")
    /\ UNCHANGED <<status, data, subs, response, closes>>

\* leaveRoom line 62: server.publish, and return
SLeavePublish(c) ==
    /\ CanRun(c) /\ pc[c].at = "leaveRoom:62"
    /\ out' = Append(out, Publish(subs, pc[c].room,
                                  <<data[c].username, " has left the room">>))
    /\ pc' = [pc EXCEPT ![c] = Idle]
    /\ last' = StepLast(c, "message")
    /\ UNCHANGED <<status, data, subs, response, closes>>

\* The transport calls websocket.close; the loop is about to start.
SCloseBegin(c, dropped) ==
    /\ CanRun(c) /\ pc[c] = Idle
    /\ status[c] = "open"
    /\ status' = [status EXCEPT ![c] = "closed"]
    /\ last' = [hook |-> "close", conn |-> c,
                msg |-> IF dropped THEN <<"dropped">> ELSE <<"kept">>]
    /\ response' = NoResponse
    /\ closes' = [closes EXCEPT ![c] = @ + 1]
    /\ subs' = IF dropped THEN {p \in subs : p[1] # c} ELSE subs
    /\ out' = <<>>
    /\ pc' = [pc EXCEPT ![c] = At("close:203", <<>>, data[c].rooms)]
    /\ UNCHANGED data

\* websocket.close lines 201-206: the next room of the loop, server.publish
SClosePublish(c) ==
    /\ CanRun(c) /\ pc[c].at = "close:203" /\ pc[c].rest # <<>>
    /\ out' = Append(out, Publish(subs, Head(pc[c].rest),
                    <<data[c].username, " has left the room (disconnected)">>))
    /\ pc' = [pc EXCEPT ![c].at = "close:209"]
    /\ last' = StepLast(c, "close")
    /\ UNCHANGED <<status, data, subs, response, closes>>

\* websocket.close line 209: ws.unsubscribe(roomName)
SCloseUnsubscribe(c) ==
    /\ CanRun(c) /\ pc[c].at = "close:209"
    /\ subs' = Unsubscribe(subs, c, Head(pc[c].rest))
    /\ pc' = [pc EXCEPT ![c] = At("close:203", <<>>, Tail(pc[c].rest))]
    /\ last' = StepLast(c, "close")
    /\ UNCHANGED <<status, data, out, response, closes>>

\* websocket.close line 213: ws.data.rooms.clear(), after the loop
SCloseClear(c) ==
    /\ CanRun(c) /\ pc[c].at = "close:203" /\ pc[c].rest = <<>>
    /\ data' = [data EXCEPT ![c].rooms = <<>>]
    /\ pc' = [pc EXCEPT ![c] = Idle]
    /\ last' = StepLast(c, "close")
    /\ UNCHANGED <<status, subs, out, response, closes>>

StepNext ==
    \/ \E c \in Conns, path \in Paths, kind \in Requests :
          \E param \in ParamsOf(c) : SFetch(c, path, param, kind)
    \/ \E c \in Conns : SOpen(c)
    \/ \E c \in Conns, m \in StepFrames : SMessage(c, m)
    \/ \E c \in Conns : SJoinSubscribe(c)
    \/ \E c \in Conns : SJoinAdd(c)
    \/ \E c \in Conns : SJoinSend(c)
    \/ \E c \in Conns : SJoinPublish(c)
    \/ \E c \in Conns : SLeaveGuard(c)
    \/ \E c \in Conns : SLeaveUnsubscribe(c)
    \/ \E c \in Conns : SLeaveDelete(c)
    \/ \E c \in Conns : SLeaveSend(c)
    \/ \E c \in Conns : SLeavePublish(c)
    \/ \E c \in Conns, dropped \in BOOLEAN : SCloseBegin(c, dropped)
    \/ \E c \in Conns : SClosePublish(c)
    \/ \E c \in Conns : SCloseUnsubscribe(c)
    \/ \E c \in Conns : SCloseClear(c)

StepSpec == Init /\ [][StepNext]_vars

-----------------------------------------------------------------------------
(* Vocabulary of the properties *)

\* The room names in connection c's rooms set.
RoomsOf(c) == {data[c].rooms[i] : i \in 1..Len(data[c].rooms)}

\* The topics connection c is subscribed to.
TopicsOf(c) == {p[2] : p \in {q \in subs : q[1] = c}}

\* Event e is a direct send of text t to connection c.
SentTo(e, c, t) == e.kind = "send" /\ e.rcpt = {c} /\ e.text = t

\* Event e is a publish of text t to topic r.
PublishedTo(e, r, t) == e.kind = "publish" /\ e.topic = r /\ e.text = t

\* The frames by which a client asks to join or leave room r.
JoinFrames(r) == {SLASH \o wJoin \o SP \o r, SLASH \o wJoinUpper \o SP \o r}

LeaveFrames(r) == {SLASH \o wLeave \o SP \o r}

\* The room messages: <<frame, room, body>>.
RoomFrames ==
    {<<SLASH \o wRoom \o SP \o r \o SP \o wX, r, wX>> : r \in RoomNames}
    \cup { <<SLASH \o wRoom \o SP \o <<"a">> \o SP \o wX \o SP \o wY,
             <<"a">>, <<"x", " ", "y">> >>,
           <<SLASH \o wRoom \o SP \o <<"a">> \o SP \o SP \o wX,
             <<"a">>, <<" ", "x">> >> }

\* The state was produced by connection c's message hook on frame m.
Handled(c, m) == last.hook = "message" /\ last.conn = c /\ last.msg = m

-----------------------------------------------------------------------------
(* C1: between hook invocations, for every connection C and room name R,  *)
(* R is in C's rooms set if and only if C is subscribed to topic R.        *)
C1_ViewsAgree == \A c \in Conns : RoomsOf(c) = TopicsOf(c)

\* A connection has left a room and another has closed, while a third
\* membership is still held.
C1_Witness ==
    \E c, d \in Conns :
        /\ c # d
        /\ status[c] = "closed"
        /\ last.hook = "message" /\ last.conn = d
        /\ last.msg \in LeaveFrames(<<"a">>)
        /\ RoomsOf(d) = {<<"b">>}

(* C2: right after join(C,R), R is in rooms(C) and C is subscribed to R;  *)
(* right after leave(C,R), R is not in rooms(C) and C is not subscribed   *)
(* to R, whether or not C was a member before.                            *)
C2_AfterJoinLeave ==
    \A c \in Conns, r \in RoomNames :
        /\ (\E m \in JoinFrames(r) : Handled(c, m))
              => r \in RoomsOf(c) /\ c \in Subscribers(subs, r)
        /\ (\E m \in LeaveFrames(r) : Handled(c, m))
              => r \notin RoomsOf(c) /\ c \notin Subscribers(subs, r)

\* A member has just left a room that another connection stays in.
C2_Witness ==
    \E c, d \in Conns, r \in RoomNames :
        /\ (\E m \in LeaveFrames(r) : Handled(c, m))
        /\ Len(out) = 2
        /\ SentTo(out[1], c, <<"You have left room: ">> \o r)
        /\ d # c /\ r \in RoomsOf(d)

(* C3: when a connection C that has R in its rooms set sends a room       *)
(* message for R with a non-empty body, exactly one message               *)
(* "[R] username(C): text" is published to R; its recipients are exactly  *)
(* the connections subscribed to R at that moment, the sender included.   *)
C3_RoomMessageDelivered ==
    [][ \A c \in Conns, f \in RoomFrames :
          (last'.hook = "message" /\ last'.conn = c /\ last'.msg = f[1]
           /\ f[2] \in RoomsOf(c))
          => /\ Len(out') = 1
             /\ PublishedTo(out'[1], f[2],
                            <<"[">> \o f[2] \o <<"] ", data[c].username, ": ">>
                            \o f[3])
             /\ out'[1].rcpt = Subscribers(subs, f[2])
             /\ c \in out'[1].rcpt ]_vars

\* A room message with a body of two words reached the sender and another
\* subscriber.
C3_Witness ==
    \E c, d \in Conns :
        /\ Handled(c, SLASH \o wRoom \o SP \o <<"a">> \o SP \o wX \o SP \o wY)
        /\ Len(out) = 1 /\ out[1].kind = "publish"
        /\ c # d /\ {c, d} \subseteq out[1].rcpt

(* C4: when connection C closes while its rooms set is S, then for every  *)
(* room R in S the announcement "username(C) has left the room            *)
(* (disconnected)" is published to R exactly once and reaches every other *)
(* connection subscribed to R at that time; nothing is published to a     *)
(* room outside S; and afterwards C's rooms set is empty.                 *)
C4_CloseAnnounces ==
    [][ \A c \in Conns :
          (last'.hook = "close" /\ last'.conn = c)
          => /\ \A r \in RoomsOf(c) :
                  \E i \in DOMAIN out' :
                      /\ PublishedTo(out'[i], r,
                            <<data[c].username,
                              " has left the room (disconnected)">>)
                      /\ (Subscribers(subs, r) \ {c}) \subseteq out'[i].rcpt
                      /\ \A j \in DOMAIN out' :
                            out'[j].topic = r => j = i
             /\ \A i \in DOMAIN out' :
                  out'[i].kind = "publish" /\ out'[i].topic \in RoomsOf(c)
             /\ data'[c].rooms = <<>> ]_vars

\* A connection that had joined two rooms closed, and the announcement of
\* its first room reached another subscriber.
C4_Witness ==
    \E c, d \in Conns :
        /\ last.hook = "close" /\ last.conn = c
        /\ Len(out) = 2
        /\ out[1].topic # out[2].topic
        /\ d # c /\ d \in out[1].rcpt
        /\ data[c].rooms = <<>>

(* C5: leave(C,R) when R is not in rooms(C) changes no rooms set and no   *)
(* subscription, publishes nothing, and sends only the warning            *)
(* "You are not in room R" to C.                                          *)
C5_LeaveNotMember ==
    [][ \A c \in Conns, r \in RoomNames :
          (last'.hook = "message" /\ last'.conn = c
           /\ last'.msg \in LeaveFrames(r) /\ r \notin RoomsOf(c))
          => /\ data' = data
             /\ subs' = subs
             /\ Len(out') = 1
             /\ SentTo(out'[1], c, <<"You are not in room ">> \o r) ]_vars

\* The warning was sent for a room another connection is subscribed to.
C5_Witness ==
    \E c, d \in Conns, r \in RoomNames :
        /\ (\E m \in LeaveFrames(r) : Handled(c, m))
        /\ Len(out) = 1
        /\ SentTo(out[1], c, <<"You are not in room ">> \o r)
        /\ d # c /\ d \in Subscribers(subs, r)

(* C6: room_message(C,R,msg) when R is not in rooms(C) sends only the     *)
(* reply "You are not in room R. Join it first with /join R" to C,        *)
(* publishes nothing (also when R has other subscribers) and changes no   *)
(* membership or subscription.                                            *)
C6_RoomMessageNotMember ==
    [][ \A c \in Conns, f \in RoomFrames :
          (last'.hook = "message" /\ last'.conn = c /\ last'.msg = f[1]
           /\ f[2] \notin RoomsOf(c))
          => /\ data' = data
             /\ subs' = subs
             /\ Len(out') = 1
             /\ SentTo(out'[1], c,
                       <<"You are not in room ">> \o f[2]
                       \o <<". Join it first with /join ">> \o f[2]) ]_vars

\* The guidance reply was sent while the room had another subscriber.
C6_Witness ==
    \E c, d \in Conns, f \in RoomFrames :
        /\ Handled(c, f[1])
        /\ Len(out) = 1 /\ out[1].kind = "send"
        /\ f[2] \notin RoomsOf(c)
        /\ d # c /\ d \in Subscribers(subs, f[2])

(* C7: once the close hook of connection C has completed, C holds no      *)
(* rooms and is subscribed to no topic, no later hook of another          *)
(* connection sends or publishes anything to C, and the close hook has    *)
(* run exactly once for C (and never for a connection not yet closed).    *)
C7_ClosedStaysClean ==
    \A c \in Conns :
        /\ status[c] = "closed"
              => /\ RoomsOf(c) = {}
                 /\ TopicsOf(c) = {}
                 /\ closes[c] = 1
                 /\ last.conn # c
                       => \A i \in DOMAIN out : c \notin out[i].rcpt
        /\ status[c] # "closed" => closes[c] = 0

\* After a connection that had been in a room closed, another connection
\* published to a room and reached a subscriber.
C7_Witness ==
    \E c, d \in Conns :
        /\ status[c] = "closed"
        /\ last.hook = "message" /\ last.conn = d /\ d # c
        /\ \E i \in DOMAIN out : out[i].kind = "publish" /\ d \in out[i].rcpt

(* C8: a message from connection C that does not begin with '/' results   *)
(* in exactly one outbound message, "username(C): message", sent directly *)
(* to C; nothing is published and no rooms set or subscription changes,   *)
(* whichever rooms C has joined.                                          *)
C8_PlainEcho ==
    [][ \A c \in Conns :
          (last'.hook = "message" /\ last'.conn = c
           /\ ~(Len(last'.msg) > 0 /\ last'.msg[1] = "/"))
          => /\ Len(out') = 1
             /\ SentTo(out'[1], c, <<data[c].username, ": ">> \o last'.msg)
             /\ data' = data
             /\ subs' = subs ]_vars

\* A frame with a space before its '/' was echoed to a connection that is
\* in a room together with another connection.
C8_Witness ==
    \E c, d \in Conns, r \in RoomNames :
        /\ Handled(c, SP \o SLASH \o wJoin \o SP \o <<"a">>)
        /\ Len(out) = 1 /\ out[1].kind = "send"
        /\ c # d /\ {c, d} \subseteq Subscribers(subs, r)

(* C9: join(C,R) when C is already joined to R leaves rooms(C) and the    *)
(* subscribers of R exactly as they were, with R in rooms(C) once, but is *)
(* not suppressed: it again sends "You have joined room: R" to C and      *)
(* again publishes "username(C) has joined the room" to R, which reaches  *)
(* the subscribers of R, C included.                                      *)
C9_RepeatJoin ==
    [][ \A c \in Conns, r \in RoomNames :
          (last'.hook = "message" /\ last'.conn = c
           /\ last'.msg \in JoinFrames(r) /\ r \in RoomsOf(c))
          => /\ data' = data
             /\ subs' = subs
             /\ Cardinality({i \in DOMAIN data'[c].rooms :
                                data'[c].rooms[i] = r}) = 1
             /\ Len(out') = 2
             /\ SentTo(out'[1], c, <<"You have joined room: ">> \o r)
             /\ PublishedTo(out'[2], r,
                            <<data[c].username, " has joined the room">>)
             /\ out'[2].rcpt = Subscribers(subs, r)
             /\ c \in out'[2].rcpt ]_vars

\* A connection joined, for the second time, the first of its two rooms.
C9_Witness ==
    \E c \in Conns :
        /\ Handled(c, SLASH \o wJoin \o SP \o <<"a">>)
        /\ data[c].rooms = << <<"a">>, <<"b">> >>
        /\ Len(out) = 2 /\ c \in out[2].rcpt

\* The user input errors of the commands: <<frame, reply>>.
ErrorFrames ==
    { <<SLASH \o wJoin, <<"Please specify a room name: /join [room]">> >>,
      <<SLASH \o wJoin \o SP, <<"Please specify a room name: /join [room]">> >>,
      <<SLASH \o wLeave, <<"Please specify a room name: /leave [room]">> >>,
      <<SLASH \o wRoom,
        <<"Please specify a room name and message: /room [room] [message]">> >>,
      <<SLASH \o wRoom \o SP \o <<"a">>,
        <<"Please specify a room name and message: /room [room] [message]">> >>,
      <<SLASH \o wRoom \o SP \o <<"a">> \o SP,
        <<"Please specify a room name and message: /room [room] [message]">> >>,
      <<SLASH \o wFoo,
        <<"Unknown command: ", "f", "o", "o",
          ". Available commands: /join, /leave, /room, /rooms, /myrooms">> >>,
      <<SLASH,
        <<"Unknown command: ",
          ". Available commands: /join, /leave, /room, /rooms, /myrooms">> >> }

(* C10: every user input error (a /join or /leave without a room, a /room *)
(* without a room or with an empty body, an unrecognized command) is      *)
(* answered by exactly one reply, sent only to the issuing connection;    *)
(* nothing is published, no rooms set or subscription changes, and the    *)
(* connection stays open.                                                 *)
C10_InputErrors ==
    [][ \A c \in Conns, f \in ErrorFrames :
          (last'.hook = "message" /\ last'.conn = c /\ last'.msg = f[1])
          => /\ Len(out') = 1
             /\ SentTo(out'[1], c, f[2])
             /\ data' = data
             /\ subs' = subs
             /\ status'[c] = "open" ]_vars

\* A /join followed by a space and no room name was answered while the
\* issuing connection and another one were in a room.
C10_Witness ==
    \E c, d \in Conns, r \in RoomNames :
        /\ Handled(c, SLASH \o wJoin \o SP)
        /\ Len(out) = 1 /\ out[1].kind = "send"
        /\ c # d /\ {c, d} \subseteq Subscribers(subs, r)

\* The lines of text s: the pieces between its "\n" characters.
RECURSIVE LinesOf(_)
LinesOf(s) ==
    IF \A i \in DOMAIN s : s[i] # "\n" THEN <<s>>
    ELSE LET i == CHOOSE k \in DOMAIN s :
                     s[k] = "\n" /\ \A j \in 1..(k - 1) : s[j] # "\n"
         IN <<SubSeq(s, 1, i - 1)>> \o LinesOf(SubSeq(s, i + 1, Len(s)))

(* C11: /myrooms replies only to C and changes no state.  With no rooms   *)
(* the reply is "You have not joined any rooms. Join one with /join       *)
(* [room]"; otherwise it is "Your rooms:" followed by one line per room,  *)
(* holding every room of rooms(C) exactly once and no other room.         *)
C11_MyRooms ==
    [][ \A c \in Conns :
          (last'.hook = "message" /\ last'.conn = c
           /\ last'.msg = SLASH \o wMyrooms)
          => /\ data' = data
             /\ subs' = subs
             /\ Len(out') = 1
             /\ out'[1].kind = "send" /\ out'[1].rcpt = {c}
             /\ IF RoomsOf(c) = {}
                THEN out'[1].text =
                       <<"You have not joined any rooms. Join one with /join [room]">>
                ELSE /\ Head(out'[1].text) = "Your rooms:\n"
                     /\ LET lines == LinesOf(Tail(out'[1].text)) IN
                        /\ \A i \in DOMAIN lines : lines[i] \in RoomsOf(c)
                        /\ \A r \in RoomsOf(c) :
                              Cardinality({i \in DOMAIN lines : lines[i] = r}) = 1
        ]_vars

\* /myrooms was answered for a connection that joined a, then b, joined a
\* again or left and rejoined, and now holds b before a.
C11_Witness ==
    \E c \in Conns :
        /\ Handled(c, SLASH \o wMyrooms)
        /\ data[c].rooms = << <<"b">>, <<"a">> >>
        /\ Len(out) = 1 /\ Len(out[1].text) = 4

\* The frames that separate "/join" from room r by two spaces or by a tab.
WideJoinFrames(r) == {SLASH \o wJoin \o SP \o SP \o r, SLASH \o wJoin \o TAB \o r}

(* C12: the command name is the first whitespace-delimited token after    *)
(* the '/', matched case-insensitively, and the arguments are the rest    *)
(* split on runs of whitespace; so a /join whose tokens are separated by  *)
(* two spaces or by a tab, and a /JOIN, join the same room as the         *)
(* single-space lower-case form does.                                     *)
C12_WhitespaceRuns ==
    \A c \in Conns, r \in RoomNames :
        (\E m \in WideJoinFrames(r) \cup JoinFrames(r) : Handled(c, m))
        => /\ r \in RoomsOf(c)
           /\ c \in Subscribers(subs, r)
           /\ Len(out) = 2
           /\ SentTo(out[1], c, <<"You have joined room: ">> \o r)

(* C15 as stated: every request that is not a connection-upgrade request  *)
(* receives "Simple WebSocket Server" with status 200, for every path,    *)
(* and a request whose upgrade attempt fails receives status 400 with     *)
(* body "WebSocket upgrade error".                                        *)
C15_PlainAlways200 ==
    last.hook = "fetch"
    => /\ last.msg[2] = "plain"
            => response = [status |-> 200, body |-> "Simple WebSocket Server"]
       /\ (last.msg[1] = "/chat" /\ last.msg[2] = "badupgrade")
            => response = [status |-> 400, body |-> "WebSocket upgrade error"]

(* C15 amended: every request whose path is not /chat receives "Simple    *)
(* WebSocket Server" with status 200, upgrade request or not; every       *)
(* request to /chat whose upgrade fails, a request without a handshake    *)
(* included, receives status 400 with body "WebSocket upgrade error";     *)
(* neither creates a connection or changes a rooms set or subscription.   *)
C15_FetchResponses ==
    [][ last'.hook = "fetch"
        => /\ last'.msg[1] # "/chat"
                => /\ response' = [status |-> 200,
                                   body |-> "Simple WebSocket Server"]
                   /\ UNCHANGED <<status, data, subs>>
           /\ (last'.msg[1] = "/chat" /\ last'.msg[2] # "upgrade")
                => /\ response' = [status |-> 400,
                                   body |-> "WebSocket upgrade error"]
                   /\ UNCHANGED <<status, data, subs>> ]_vars

\* A request without a handshake for /chat was answered with 400 while an
\* open connection was in a room.
C15_Witness ==
    /\ last.hook = "fetch" /\ last.msg = <<"/chat", "plain">>
    /\ response.status = 400
    /\ \E d \in Conns : status[d] = "open" /\ RoomsOf(d) # {}

(* C16: join(C,R) subscribes C and adds R before it sends and publishes:  *)
(* C receives "You have joined room: R" and then, as a subscriber of R,   *)
(* "username(C) has joined the room", and every other subscriber of R     *)
(* receives the announcement exactly once.                                *)
C16_JoinOrder ==
    [][ \A c \in Conns, r \in RoomNames :
          (last'.hook = "message" /\ last'.conn = c
           /\ last'.msg \in JoinFrames(r))
          => /\ Len(out') = 2
             /\ SentTo(out'[1], c, <<"You have joined room: ">> \o r)
             /\ PublishedTo(out'[2], r,
                            <<data[c].username, " has joined the room">>)
             /\ out'[2].rcpt = Subscribers(subs, r) \cup {c}
             /\ r \in RoomsOf(c)' ]_vars

\* A connection joined, as the second of its rooms, a room that another
\* connection was in, and both received the announcement.
C16_Witness ==
    \E c, d \in Conns, r \in RoomNames :
        /\ (\E m \in JoinFrames(r) : Handled(c, m))
        /\ Len(data[c].rooms) = 2 /\ data[c].rooms[2] = r
        /\ Len(out) = 2 /\ c # d /\ out[2].rcpt = {c, d}

(* C17: leave(C,R) with R in rooms(C) unsubscribes C and removes R before *)
(* it publishes: C receives "You have left room: R" and is no recipient   *)
(* of its own "username(C) has left the room", which every connection     *)
(* still subscribed to R receives exactly once.                           *)
C17_LeaveOrder ==
    [][ \A c \in Conns, r \in RoomNames :
          (last'.hook = "message" /\ last'.conn = c
           /\ last'.msg \in LeaveFrames(r) /\ r \in RoomsOf(c))
          => /\ Len(out') = 2
             /\ SentTo(out'[1], c, <<"You have left room: ">> \o r)
             /\ PublishedTo(out'[2], r,
                            <<data[c].username, " has left the room">>)
             /\ out'[2].rcpt = Subscribers(subs, r) \ {c}
             /\ r \notin RoomsOf(c)' ]_vars

\* A member left a room and the announcement reached the member that
\* stayed, not the one that left.
C17_Witness ==
    \E c, d \in Conns, r \in RoomNames :
        /\ (\E m \in LeaveFrames(r) : Handled(c, m))
        /\ Len(out) = 2 /\ out[2].kind = "publish"
        /\ c # d /\ out[2].rcpt = {d}

C19_OthersUntouched ==
    [][ \A c \in Conns :
          last'.conn = c
          => /\ \A d \in Conns \ {c} :
                  /\ data'[d] = data[d]
                  /\ status'[d] = status[d]
                  /\ {p \in subs' : p[1] = d} = {p \in subs : p[1] = d}
             /\ status[c] # "none" => data'[c].username = data[c].username
        ]_vars

\* A connection in two rooms closed while another connection, with a
\* different username, was in both rooms.
C19_Witness ==
    \E c, d \in Conns :
        /\ last.hook = "close" /\ last.conn = c /\ Len(out) = 2
        /\ c # d /\ Len(data[d].rooms) = 2
        /\ data[c].username # data[d].username

(* C20: every inbound text frame handled for an open connection C results *)
(* in at least one message addressed to C within that invocation: a       *)
(* direct reply, or the publish of a room message, of which C is a        *)
(* recipient.  (The hook is straight-line code: each invocation is one    *)
(* finite step, which is how it appears here.)                            *)
C20_AlwaysAnswered ==
    last.hook = "message"
    => /\ out # <<>>
       /\ \E i \in DOMAIN out : last.conn \in out[i].rcpt

\* A room message whose only output is the publish came back to its
\* sender, the only subscriber of the room.
C20_Witness ==
    \E c \in Conns :
        /\ Handled(c, SLASH \o wRoom \o SP \o <<"b">> \o SP \o wX)
        /\ Len(out) = 1 /\ out[1].kind = "publish" /\ out[1].rcpt = {c}

(* C14: under any interleaving of the hooks of different connections,     *)
(* whenever a connection C takes a step, no other connection D is between *)
(* its subscribe or unsubscribe call and the matching change of its rooms *)
(* set (D's rooms set and D's subscriptions agree), and every publish C   *)
(* makes to a room R goes, among the other connections, to exactly those  *)
(* that are members of R at that step: none that is still a member is     *)
(* left out and none that has left is included.                           *)
C14_HooksDoNotInterleave ==
    [][ \A c \in Conns :
          last'.conn = c
          => /\ \A d \in Conns \ {c} : RoomsOf(d) = TopicsOf(d)
             /\ (Len(out') = Len(out) + 1 /\ out'[Len(out')].kind = "publish")
                  => out'[Len(out')].rcpt \ {c} =
                       {d \in Conns \ {c} : out'[Len(out')].topic \in RoomsOf(d)}
        ]_vars

\* A connection has subscribed to a room and not yet added it to its rooms
\* set, while another connection is a member of that room.
C14_Witness ==
    \E c, d \in Conns :
        /\ pc[c].at = "joinRoom:29"
        /\ pc[c].room \notin RoomsOf(c)
        /\ c \in Subscribers(subs, pc[c].room)
        /\ d # c /\ status[d] = "open" /\ pc[c].room \in RoomsOf(d)

=============================================================================
